---- MODULE Spec2Model ----
(***************************************************************************)
(* Model of dataeyesa/report_ventas.                                       *)
(*                                                                         *)
(*   app.py      : the Flask service; the /run_query handler validates a   *)
(*                 raw SQL text, appends LIMIT/OFFSET, runs it on a        *)
(*                 read-only SQLite connection and shapes the JSON answer. *)
(*   ventasdb.py : the Excel -> SQLite importer; guess_type infers the     *)
(*                 column type from a sample of cell values.               *)
(*                                                                         *)
(* Texts are TLA+ strings; every text operation of the code (strip, lower, *)
(* startswith, "in", split, int(), str(), f-strings) is computed character *)
(* by character.                                                           *)
(***************************************************************************)
EXTENDS Integers, Sequences, FiniteSets, TLC

VARIABLES
    pc,        \* "idle": no request in flight; "pending": a request body has arrived
    req,       \* the JSON body of the request in flight / last handled
    resp,      \* the HTTP answer of the last handled request
    events,    \* database interactions of the last handled request, in order
    executed,  \* the statement texts handed to cur.execute by the last request
    conns,     \* every connection opened so far by run_query: its settings, and whether it is still open
    handled,   \* number of requests handled so far
    sample,    \* ventasdb.py: the sampled cell values of one column
    types_i,   \* ventasdb.py: types[i] after line 129 ("unset" before inference)
    cols_sql_t \* ventasdb.py: the type written in CREATE TABLE for the column

vars == <<pc, req, resp, events, executed, conns, handled, sample, types_i, cols_sql_t>>

appvars == <<pc, req, resp, events, executed, conns, handled>>
impvars == <<sample, types_i, cols_sql_t>>

----------------------------------------------------------------------------
(* Bounds *)

MaxRequests == 2    \* requests handled in one behaviour
MaxRows     == 2    \* rows the engine returns for one statement
MaxSample   == 3    \* cells in a column sample

----------------------------------------------------------------------------
(* Text primitives (Python str) *)

Char(s, i) == SubSeq(s, i, i)

UpperLetters == "ABCDEFGHIJKLMNOPQRSTUVWXYZ"
LowerLetters == "abcdefghijklmnopqrstuvwxyz"
DigitChars   == "0123456789"

LowerChar(c) ==
    IF \E k \in 1..26 : Char(UpperLetters, k) = c
    THEN Char(LowerLetters, CHOOSE k \in 1..26 : Char(UpperLetters, k) = c)
    ELSE c

RECURSIVE lower(_)
lower(s) == IF s = "" THEN "" ELSE LowerChar(Char(s, 1)) \o lower(SubSeq(s, 2, Len(s)))

IsSpace(c) == c \in {" ", "\t", "\n", "\r"}

RECURSIVE lstrip(_)
lstrip(s) == IF s # "" /\ IsSpace(Char(s, 1)) THEN lstrip(SubSeq(s, 2, Len(s))) ELSE s

RECURSIVE rstrip(_)
rstrip(s) == IF s # "" /\ IsSpace(Char(s, Len(s))) THEN rstrip(SubSeq(s, 1, Len(s) - 1)) ELSE s

strip(s) == rstrip(lstrip(s))

startswith(s, p) == Len(s) >= Len(p) /\ SubSeq(s, 1, Len(p)) = p

\* Python's  p in s  for strings
Contains(s, p) == \E i \in 1..(Len(s) - Len(p) + 1) : SubSeq(s, i, i + Len(p) - 1) = p

IsDigitChar(c) == \E d \in 1..10 : Char(DigitChars, d) = c
DigitVal(c) == (CHOOSE d \in 1..10 : Char(DigitChars, d) = c) - 1

isdigit(s) == s # "" /\ \A i \in 1..Len(s) : IsDigitChar(Char(s, i))

RECURSIVE DigitsToNat(_)
DigitsToNat(s) ==
    IF s = "" THEN 0
    ELSE DigitsToNat(SubSeq(s, 1, Len(s) - 1)) * 10 + DigitVal(Char(s, Len(s)))

RECURSIVE NatToStr(_)
NatToStr(n) == IF n < 10 THEN Char(DigitChars, n + 1)
               ELSE NatToStr(n \div 10) \o Char(DigitChars, (n % 10) + 1)

\* str(n) / f"{n}" of a Python int
IntToStr(n) == IF n < 0 THEN "-" \o NatToStr(0 - n) ELSE NatToStr(n)

----------------------------------------------------------------------------
(* JSON values of the request body, and Python's handling of them *)

JNull   == [t |-> "null", n |-> 0, s |-> ""]
JInt(k) == [t |-> "int",  n |-> k, s |-> ""]
JStr(x) == [t |-> "str",  n |-> 0, s |-> x]

\* Python truthiness of a JSON value (None, 0 and "" are falsy)
Truthy(v) == CASE v.t = "null" -> FALSE
               [] v.t = "int"  -> v.n # 0
               [] OTHER        -> v.s # ""

\* v or d
Or(v, d) == IF Truthy(v) THEN v ELSE d

\* int(v): an int is itself; a string is stripped, may carry a sign, and must
\* then be decimal digits, otherwise ValueError
int(v) ==
    IF v.t = "int" THEN [ok |-> TRUE, n |-> v.n]
    ELSE LET x    == strip(v.s)
             neg  == startswith(x, "-")
             sgn  == neg \/ startswith(x, "+")
             body == IF sgn THEN SubSeq(x, 2, Len(x)) ELSE x
         IN  IF isdigit(body)
             THEN [ok |-> TRUE, n |-> IF neg THEN 0 - DigitsToNat(body) ELSE DigitsToNat(body)]
             ELSE [ok |-> FALSE, n |-> 0]

----------------------------------------------------------------------------
(* app.py: /run_query *)

DEFAULT_LIMIT  == 500
DEFAULT_OFFSET == 0
MAX_LIMIT      == 5000   \* the "configured maximum" of the specification; app.py has none

FORBIDDEN_PATTERNS ==
    { "pragma", "attach", "detach", "vacuum", "reindex",
      "drop", "alter", "insert", "update", "delete", "replace",
      "create", "truncate", "grant", "revoke", "begin", "commit", "rollback" }

sql_raw_of(r) == strip(r.sql)                       \* (payload.get("sql") or "").strip()
limit_of(r)   == int(Or(r.limit,  JInt(DEFAULT_LIMIT)))
offset_of(r)  == int(Or(r.offset, JInt(DEFAULT_OFFSET)))

\* The path the handler takes up to line 160:
\*   "exception"  int() raised at line 150/151 (caught at line 185)
\*   "not_select" / "semicolon" / "forbidden"  the three 400 returns
\*   "accepted"   control reaches line 163
Verdict(r) ==
    LET sql_raw == sql_raw_of(r)
        lowered == lower(sql_raw)
    IN  IF ~limit_of(r).ok \/ ~offset_of(r).ok THEN "exception"
        ELSE IF ~startswith(lowered, "select") THEN "not_select"
        ELSE IF Contains(sql_raw, ";") THEN "semicolon"
        ELSE IF \E x \in FORBIDDEN_PATTERNS : Contains(lowered, x) THEN "forbidden"
        ELSE "accepted"

\* Lines 163-167: the text handed to cur.execute
PaginatedSql(sql_raw, limit, offset) ==
    LET lowered == lower(sql_raw)
        s1 == IF ~Contains(lowered, " limit ")
              THEN sql_raw \o " LIMIT " \o IntToStr(limit) ELSE sql_raw
        s2 == IF ~Contains(lowered, " offset ") /\ offset > 0
              THEN s1 \o " OFFSET " \o IntToStr(offset) ELSE s1
    IN  s2

\* get_conn_ro: the connection as sqlite3.connect("file:...?mode=ro", uri=True)
\* leaves it: read-only by its URI, no statement timeout, open.
get_conn_ro == [read_only |-> TRUE, stmt_timeout |-> FALSE, open |-> TRUE]

\* What the engine does with the statement: the connect fails (no database
\* file), the execute raises, or it returns rows under the column names of
\* the select list.
CellValues == {1, 2}

EngineOutcomes(r) ==
    { [kind |-> "connect_error", rows |-> << >>],
      [kind |-> "execute_error", rows |-> << >>] }
    \cup { [kind |-> "rows", rows |-> rs] :
             rs \in UNION { [1..k -> [1..Len(r.cols) -> CellValues]] : k \in 0..MaxRows } }

\* DbEvents with the validation verdict looked at only after the statement ran
DbEventsUnguarded(verdict, eng) ==
    CASE eng.kind = "connect_error" -> <<"connect_failed">>
      [] eng.kind = "execute_error" -> <<"connect_ro", "execute", "rollback">>
      [] OTHER -> <<"connect_ro", "execute", "fetchall", "commit">>

\* The database interactions of one request, in order (lines 169-175 and the
\* exit of the with block: commit on success, rollback on an exception).
DbEvents(verdict, eng) ==
    IF verdict # "accepted" THEN << >>
    ELSE CASE eng.kind = "connect_error" -> <<"connect_failed">>
           [] eng.kind = "execute_error" -> <<"connect_ro", "execute", "rollback">>
           [] OTHER -> <<"connect_ro", "execute", "fetchall", "commit">>

\* sqlite3.Row.keys(): the column names in select order, duplicates kept
keys(names) == names

\* dict(r) of a sqlite3.Row: one entry per distinct name, r[name] being the
\* first column of that name
dict(names, row) ==
    [ n \in { names[i] : i \in 1..Len(names) } |->
        row[CHOOSE i \in 1..Len(names) : names[i] = n /\ \A j \in 1..(i - 1) : names[j] # n] ]

NoBody == [error |-> "", fields |-> << >>, limit_applied |-> 0, offset |-> 0,
           rowcount |-> 0, rows |-> << >>]

ErrorResp(code, msg) == [status |-> code, body |-> [NoBody EXCEPT !.error = msg]]

\* The (body, status) pair the handler returns (messages in ASCII; the text
\* of str(e) is abridged)
Response(r, verdict, eng) ==
    CASE verdict = "exception"  -> ErrorResp(500, "invalid literal for int()")
      [] verdict = "not_select" -> ErrorResp(400, "Solo se permiten consultas que inicien con SELECT.")
      [] verdict = "semicolon"  -> ErrorResp(400, "Patron prohibido detectado: ;")
      [] verdict = "forbidden"  -> ErrorResp(400, "Consulta contiene operaciones no permitidas.")
      [] OTHER ->
           IF eng.kind # "rows" THEN ErrorResp(500, eng.kind)
           ELSE LET rows   == eng.rows
                    fields == IF Len(rows) > 0 THEN keys(r.cols) ELSE << >>
                    data   == [ i \in 1..Len(rows) |-> dict(r.cols, rows[i]) ]
                IN  [status |-> 200,
                     body |-> [error |-> "",
                               fields |-> fields,
                               limit_applied |-> limit_of(r).n,
                               offset |-> offset_of(r).n,
                               rowcount |-> Len(data),
                               rows |-> data]]

----------------------------------------------------------------------------
(* The requests of the model *)

\* sql: the "sql" text of the body; cols: the column names the engine reports
\* for its select list
Queries ==
    { [sql |-> "SELECT a FROM ventas",                    cols |-> <<"a">>],
      [sql |-> "  select a, b from ventas\n",             cols |-> <<"a", "b">>],
      [sql |-> "SELECT a, a FROM ventas",                 cols |-> <<"a", "a">>],
      [sql |-> "SELECT updated_at FROM ventas",           cols |-> <<"updated_at">>],
      [sql |-> "SELECT a FROM ventas LIMIT 5",            cols |-> <<"a">>],
      [sql |-> "SELECT a FROM ventas\nLIMIT 5",           cols |-> <<"a">>],
      [sql |-> "SELECT a FROM ventas LIMIT 5 OFFSET 2",   cols |-> <<"a">>],
      [sql |-> "SELECT a FROM ventas; DROP TABLE ventas", cols |-> <<"a">>],
      [sql |-> "SELECT a FROM ventas;",                   cols |-> <<"a">>],
      [sql |-> "DROP TABLE ventas;",                      cols |-> << >>],
      [sql |-> "UPDATE ventas SET a = 1",                 cols |-> << >>],
      [sql |-> "",                                        cols |-> << >>] }

Limits  == { JNull, JInt(0), JInt(-3), JInt(1), JInt(MAX_LIMIT), JInt(MAX_LIMIT + 1),
             JStr("10"), JStr("abc") }
Offsets == { JNull, JInt(-1), JInt(10), JStr("x") }

Requests == { [sql |-> q.sql, cols |-> q.cols, limit |-> l, offset |-> o] :
                q \in Queries, l \in Limits, o \in Offsets }

NoReq  == [sql |-> "", cols |-> << >>, limit |-> JNull, offset |-> JNull]
NoResp == [status |-> 0, body |-> NoBody]

----------------------------------------------------------------------------
(* Actions of the service *)

\* Flask hands a POST /run_query body to the handler
Receive ==
    /\ pc = "idle"
    /\ handled < MaxRequests
    /\ \E r \in Requests : req' = r
    /\ pc' = "pending"
    /\ resp' = NoResp
    /\ events' = << >>
    /\ executed' = << >>
    /\ UNCHANGED <<conns, handled>>
    /\ UNCHANGED impvars

\* run_query, from line 146 to its return
run_query ==
    /\ pc = "pending"
    /\ \E eng \in EngineOutcomes(req) :
         LET verdict == Verdict(req)
             ev      == DbEvents(verdict, eng)
             ran     == \E i \in 1..Len(ev) : ev[i] = "execute"
             opened  == \E i \in 1..Len(ev) : ev[i] = "connect_ro"
         IN  /\ resp' = Response(req, verdict, eng)
             /\ events' = ev
             /\ executed' = IF ran
                            THEN << PaginatedSql(sql_raw_of(req), limit_of(req).n, offset_of(req).n) >>
                            ELSE << >>
             \* the with block commits or rolls back; nothing closes the connection
             /\ conns' = IF opened THEN Append(conns, get_conn_ro) ELSE conns
    /\ pc' = "idle"
    /\ handled' = handled + 1
    /\ UNCHANGED req
    /\ UNCHANGED impvars

\* The interpreter finalizes a connection object nothing refers to any more
\* (sqlite3.Connection closes its database handle when it is deallocated)
Reclaim ==
    /\ pc = "idle"
    /\ \E i \in 1..Len(conns) :
         /\ conns[i].open
         /\ conns' = [conns EXCEPT ![i].open = FALSE]
    /\ UNCHANGED <<pc, req, resp, events, executed, handled>>
    /\ UNCHANGED impvars

Init ==
    /\ pc = "idle"
    /\ req = NoReq
    /\ resp = NoResp
    /\ events = << >>
    /\ executed = << >>
    /\ conns = << >>
    /\ handled = 0
    /\ sample = << >>
    /\ types_i = "unset"
    /\ cols_sql_t = "unset"

Next == Receive \/ run_query \/ Reclaim

Spec == Init /\ [][Next]_vars

----------------------------------------------------------------------------
(* ventasdb.py: type inference of one column *)

\* Cell values as openpyxl yields them
CNone     == [t |-> "none",  n |-> 0, s |-> ""]
CStr(x)   == [t |-> "str",   n |-> 0, s |-> x]
CInt(k)   == [t |-> "int",   n |-> k, s |-> ""]
CFloat(k) == [t |-> "float", n |-> k, s |-> ""]    \* the float k/10
CBool(b)  == [t |-> "bool",  n |-> IF b THEN 1 ELSE 0, s |-> ""]
CDate     == [t |-> "date",  n |-> 0, s |-> "2024-01-05"]   \* a datetime.date / datetime.datetime

\* str(x)
str(x) ==
    CASE x.t = "none"  -> "None"
      [] x.t = "str"   -> x.s
      [] x.t = "int"   -> IntToStr(x.n)
      [] x.t = "float" -> (IF x.n < 0 THEN "-" ELSE "")
                          \o NatToStr((IF x.n < 0 THEN 0 - x.n ELSE x.n) \div 10) \o "."
                          \o NatToStr((IF x.n < 0 THEN 0 - x.n ELSE x.n) % 10)
      [] x.t = "bool"  -> IF x.n = 1 THEN "True" ELSE "False"
      [] OTHER         -> x.s

IndexOf(s, c) == CHOOSE i \in 1..Len(s) : Char(s, i) = c /\ \A j \in 1..(i - 1) : Char(s, j) # c

\* s.split(sep) for a one-character separator
RECURSIVE split(_, _)
split(s, sep) ==
    IF ~Contains(s, sep) THEN <<s>>
    ELSE <<SubSeq(s, 1, IndexOf(s, sep) - 1)>> \o split(SubSeq(s, IndexOf(s, sep) + 1, Len(s)), sep)

AllZeros(s) == \A i \in 1..Len(s) : Char(s, i) = "0"

\* float(x): whether it succeeds and whether the result is a whole number.
\* Strings are read as [sign] digits [ "." [digits] ] or [sign] "." digits
\* (exponents, inf, nan and digit underscores are outside the model's cells).
float(x) ==
    CASE x.t = "int"   -> [ok |-> TRUE, is_integer |-> TRUE]
      [] x.t = "bool"  -> [ok |-> TRUE, is_integer |-> TRUE]
      [] x.t = "float" -> [ok |-> TRUE, is_integer |-> x.n % 10 = 0]
      [] x.t = "str"   ->
           LET y     == strip(x.s)
               body  == IF startswith(y, "-") \/ startswith(y, "+") THEN SubSeq(y, 2, Len(y)) ELSE y
               parts == split(body, ".")
               good  == \/ Len(parts) = 1 /\ isdigit(parts[1])
                        \/ /\ Len(parts) = 2
                           /\ parts[1] = "" \/ isdigit(parts[1])
                           /\ parts[2] = "" \/ isdigit(parts[2])
                           /\ parts[1] # "" \/ parts[2] # ""
           IN  [ok |-> good,
                is_integer |-> good /\ (Len(parts) = 1 \/ AllZeros(parts[2]))]
      [] OTHER         -> [ok |-> FALSE, is_integer |-> FALSE]   \* TypeError

is_int(x) ==
    IF x.t = "bool" THEN FALSE
    ELSE float(x).ok /\ float(x).is_integer /\ strip(str(x)) # ""

is_real(x) == float(x).ok /\ strip(str(x)) # ""

is_date_like(x) ==
    IF x.t = "date" THEN TRUE
    ELSE LET xs == strip(str(x))
         IN  \E sep \in {"-", "/"} :
                LET parts == split(xs, sep)
                IN  /\ Len(parts) = 3
                    /\ \A i \in 1..3 : isdigit(parts[i])
                    /\ LET y == DigitsToNat(parts[1])
                           m == DigitsToNat(parts[2])
                           d == DigitsToNat(parts[3])
                       IN  1 <= m /\ m <= 12 /\ 1 <= d /\ d <= 31 /\ 1900 <= y /\ y <= 2100

\* v is None or str(v).strip() == ""
IsEmptyCell(v) == v.t = "none" \/ strip(str(v)) = ""

\* The class the loop of lines 52-63 counts a non-empty cell under
Classify(v) ==
    IF is_date_like(v) THEN "date"
    ELSE IF is_int(v) THEN "int"
    ELSE IF is_real(v) THEN "real"
    ELSE "text"

Count(values, class) ==
    Cardinality({ i \in 1..Len(values) : ~IsEmptyCell(values[i]) /\ Classify(values[i]) = class })

\* Lines 64-78: the type decided from the four counters
Decide(seen_any, ints, reals, dates, texts) ==
    IF ~seen_any THEN "TEXT"
    ELSE IF texts > 0 THEN "TEXT"
    ELSE IF dates > 0 /\ dates >= (ints + reals) THEN "TEXT"      \* line 68: every branch is "TEXT"
    ELSE IF dates > 0 /\ (ints + reals) = 0 THEN "DATE"
    ELSE IF reals > 0 /\ ints = 0 THEN "REAL"
    ELSE IF reals > 0 /\ ints > 0 THEN "REAL"
    ELSE IF ints > 0 THEN "INTEGER"
    ELSE "TEXT"

guess_type(values) ==
    Decide(\E i \in 1..Len(values) : ~IsEmptyCell(values[i]),
           Count(values, "int"), Count(values, "real"),
           Count(values, "date"), Count(values, "text"))

Cells == { CNone, CStr(" "), CDate, CStr("2024-01-05"), CStr("2024/12/31"), CStr("2024-13-01"),
           CInt(7), CFloat(25), CStr("12"), CStr("abc"), CBool(TRUE) }

Samples == UNION { [1..k -> Cells] : k \in 0..MaxSample }

\* main, lines 127-129 and 155-159, for one column
InferColumn ==
    /\ types_i = "unset"
    /\ LET t  == guess_type(sample)
           t2 == IF t \notin {"INTEGER", "REAL", "DATE"} THEN "TEXT" ELSE t
       IN  /\ types_i' = t2
           /\ cols_sql_t' = IF t2 = "DATE" THEN "TEXT" ELSE t2
    /\ UNCHANGED sample
    /\ UNCHANGED appvars

InitImport ==
    /\ pc = "idle"
    /\ req = NoReq
    /\ resp = NoResp
    /\ events = << >>
    /\ executed = << >>
    /\ conns = << >>
    /\ handled = 0
    /\ sample \in Samples
    /\ types_i = "unset"
    /\ cols_sql_t = "unset"

NextImport == InferColumn

SpecImport == InitImport /\ [][NextImport]_vars

----------------------------------------------------------------------------
(* Properties *)

\* The last request has been answered
Answered == pc = "idle" /\ handled > 0

IsWordChar(c) ==
    \/ \E k \in 1..26 : Char(LowerLetters, k) = c \/ Char(UpperLetters, k) = c
    \/ IsDigitChar(c)
    \/ c = "_"

\* w occurs in s as a whole token: not inside a longer identifier
WholeWord(s, w) ==
    \E i \in 1..(Len(s) - Len(w) + 1) :
        /\ SubSeq(s, i, i + Len(w) - 1) = w
        /\ i = 1 \/ ~IsWordChar(Char(s, i - 1))
        /\ i + Len(w) > Len(s) \/ ~IsWordChar(Char(s, i + Len(w)))

IntsOk(r) == limit_of(r).ok /\ offset_of(r).ok

\* C1: every request whose SQL text contains ';' is answered 400 and its text
\* is never executed, whatever limit and offset come with it.
C1_SemicolonAlways400 ==
    (Answered /\ Contains(req.sql, ";")) => (resp.status = 400 /\ executed = << >>)

\* C2: a statement that starts with SELECT, has no ';' and holds a banned
\* keyword only inside a longer identifier is not rejected as a forbidden
\* operation.
C2_WholeTokenMatching ==
    ( /\ Answered
      /\ IntsOk(req)
      /\ startswith(lower(sql_raw_of(req)), "select")
      /\ ~Contains(req.sql, ";")
      /\ \A x \in FORBIDDEN_PATTERNS : ~WholeWord(lower(sql_raw_of(req)), x) )
    => resp.status # 400

\* C3: the limit reported as limit_applied is the default for a requested
\* limit below 1, the maximum for one above the maximum, the requested limit
\* otherwise; a requested offset below 0 is reported as 0.
C3_LimitClamped ==
    (Answered /\ resp.status = 200) =>
        /\ req.limit.t = "int" =>
              resp.body.limit_applied =
                 (IF req.limit.n < 1 THEN DEFAULT_LIMIT
                  ELSE IF req.limit.n > MAX_LIMIT THEN MAX_LIMIT
                  ELSE req.limit.n)
        /\ (req.offset.t = "int" /\ req.offset.n < 0) => resp.body.offset = 0

\* C4: when the submitted statement already has a LIMIT clause, the text
\* executed is the submitted text, nothing appended.
C4_LimitLeftUntouched ==
    (Answered /\ executed # << >> /\ WholeWord(lower(req.sql), "limit"))
    => executed = << sql_raw_of(req) >>

\* C5: a request answered with a 400 validation rejection opened no
\* connection and executed no statement while it was handled.
C5_RejectionBeforeDatabase ==
    [][ (pc = "pending" /\ pc' = "idle" /\ resp'.status = 400)
        => (conns' = conns /\ events' = << >> /\ executed' = << >>) ]_vars

\* C5 witness: a second request is rejected with 400 after a first one opened
\* a connection
C5_Witness ==
    Answered /\ resp.status = 400 /\ handled = 2 /\ Len(conns) = 1 /\ events = << >>

\* C6: once the requests are answered, no connection they opened is open.
C6_ConnectionsReleased ==
    pc = "idle" => \A i \in 1..Len(conns) : ~conns[i].open

\* C7: a statement is run only on a connection on which read-only mode and a
\* statement timeout have both been established.
C7_ReadOnlyAndTimeoutBeforeRun ==
    (Answered /\ executed # << >>) =>
        (conns[Len(conns)].read_only /\ conns[Len(conns)].stmt_timeout)

\* C8: in a successful answer every row has as many values as there are
\* fields, and rowcount is the number of rows.
C8_FieldsMatchRows ==
    (Answered /\ resp.status = 200) =>
        /\ \A i \in 1..Len(resp.body.rows) :
              Cardinality(DOMAIN resp.body.rows[i]) = Len(resp.body.fields)
        /\ resp.body.rowcount = Len(resp.body.rows)

\* C9: a request whose limit or offset does not convert to an integer is
\* answered 400, and nothing is executed.
C9_MalformedLimitIs400 ==
    (Answered /\ ~IntsOk(req)) => (resp.status = 400 /\ executed = << >>)

\* C10: a sample with at least one non-empty value, all of whose non-empty
\* values are date-like, is typed DATE.
C10_AllDatesGiveDate ==
    ( /\ types_i # "unset"
      /\ \E i \in 1..Len(sample) : ~IsEmptyCell(sample[i])
      /\ \A i \in 1..Len(sample) : IsEmptyCell(sample[i]) \/ is_date_like(sample[i]) )
    => types_i = "DATE"

====
